---- MODULE Spec2Model ----
(***************************************************************************)
(* fstdout-logger: a logger that writes every enabled record to stdout and *)
(* (optionally) to a log file.  The module models                          *)
(*   - LoggerConfig and its presets            (src/src/config/mod.rs)     *)
(*   - LogFormatter::format_stdout/format_file (src/src/formatter/mod.rs)  *)
(*   - FStdoutLogger, its Log impl and the init helpers (src/src/lib.rs)   *)
(* together with the part of the `log` facade the code calls               *)
(* (set_logger, set_max_level, max_level).                                 *)
(*                                                                         *)
(* Rendered text is a sequence of string tokens: the pieces of the format  *)
(* string, the substituted values and the ANSI escape sequences.           *)
(***************************************************************************)
EXTENDS Integers, Sequences, FiniteSets, TLC

(***************************************************************************)
(* Bounds of the model.                                                    *)
(***************************************************************************)
\* application threads
NumThreads == 2
\* init helper calls of a run of the registration lifecycle
MaxInits == 2
\* log() calls per thread where the calls themselves are studied one by one
FewLogs == 1
\* log() calls per thread under concurrent load
MaxLogs == 2
\* flush() calls of a run
MaxFlushes == 1
\* application calls of log::set_max_level of a run
MaxSets == 1
\* seconds the wall clock advances during a run
MaxClock == 1

Threads == 1..NumThreads

(***************************************************************************)
(* log::LevelFilter (Off < Error < ... < Trace) and log::Level             *)
(* (Error .. Trace) with the numeric order `<=` of lib.rs:205 compares.    *)
(***************************************************************************)
Off == 0
Error == 1
Warn == 2
Info == 3
Debug == 4
Trace == 5

LevelFilters == Off..Trace
Levels == Error..Trace

\* Level::as_str / Display for Level
LevelStr(level) ==
    CASE level = Error -> "ERROR"
      [] level = Warn  -> "WARN"
      [] level = Info  -> "INFO"
      [] level = Debug -> "DEBUG"
      [] level = Trace -> "TRACE"

(***************************************************************************)
(* Option<T>: None is the empty sequence, Some(x) is <<x>>.                *)
(***************************************************************************)
None == <<>>
Some(x) == <<x>>
unwrap_or(opt, default) == IF opt = None THEN default ELSE opt[1]

(***************************************************************************)
(* LoggerConfig, its Default impl, presets and builder.                    *)
(***************************************************************************)
LoggerConfig ==
    [show_file_info : BOOLEAN, show_date_in_stdout : BOOLEAN,
     use_colors : BOOLEAN, level : LevelFilters]

DefaultConfig ==
    [show_file_info |-> TRUE, show_date_in_stdout |-> FALSE,
     use_colors |-> TRUE, level |-> Info]

production ==
    [show_file_info |-> FALSE, show_date_in_stdout |-> FALSE,
     use_colors |-> TRUE, level |-> Info]

development ==
    [show_file_info |-> TRUE, show_date_in_stdout |-> FALSE,
     use_colors |-> TRUE, level |-> Debug]

\* LoggerConfig::builder().level(l).show_file_info(f).use_colors(c).build()
builder(l, f, d, c) ==
    [[[[DefaultConfig EXCEPT !.level = l]
                      EXCEPT !.show_file_info = f]
                      EXCEPT !.show_date_in_stdout = d]
                      EXCEPT !.use_colors = c]

(***************************************************************************)
(* The `colored` crate: a ColoredString is its input with a style; its     *)
(* Display writes the SGR sequence, the input and the reset sequence, or   *)
(* the bare input when no colour and no style is set.                      *)
(***************************************************************************)
AnsiReset == "ESC[0m"
AnsiCodes == {"ESC[90m", "ESC[1;31m", "ESC[1;33m", "ESC[1;34m", "ESC[32m", AnsiReset}

normal(s)       == [input |-> s, sgr |-> ""]
bright_black(s) == [input |-> s, sgr |-> "ESC[90m"]
red_bold(s)     == [input |-> s, sgr |-> "ESC[1;31m"]
yellow_bold(s)  == [input |-> s, sgr |-> "ESC[1;33m"]
blue_bold(s)    == [input |-> s, sgr |-> "ESC[1;34m"]
green(s)        == [input |-> s, sgr |-> "ESC[32m"]

\* Display for ColoredString; `input` is a token sequence
Display(cs) ==
    IF cs.sgr = "" THEN cs.input ELSE <<cs.sgr>> \o cs.input \o <<AnsiReset>>

(***************************************************************************)
(* chrono::Local::now().format(..): an instant is a date and a time of     *)
(* day; the clock is a counter of seconds.                                 *)
(***************************************************************************)
Instant(c) == [date |-> "2024-01-15", time |-> "14:32:0" \o ToString(c)]
FormatDateTime(now) == <<now.date, " ", now.time>>
FormatTime(now) == <<now.time>>

(***************************************************************************)
(* LogFormatter                                                            *)
(***************************************************************************)
get_level_color(config, level) ==
    IF ~config.use_colors
    THEN normal(<<LevelStr(level)>>)
    ELSE CASE level = Error -> red_bold(<<"ERROR">>)
           [] level = Warn  -> yellow_bold(<<"WARN">>)
           [] level = Info  -> blue_bold(<<"INFO">>)
           [] level = Debug -> green(<<"DEBUG">>)
           [] level = Trace -> normal(<<"TRACE">>)

\* format_stdout with the timestamp never styled
format_stdout_plain_timestamp(config, record, now) ==
    LET timestamp == IF config.show_date_in_stdout
                     THEN FormatDateTime(now)
                     ELSE FormatTime(now)
        level_str == get_level_color(config, record.level)
        file == unwrap_or(record.file, "unknown")
        line == unwrap_or(record.line, 0)
        file_info == IF config.use_colors
                     THEN Display(bright_black(<<file, ":", ToString(line)>>))
                     ELSE <<file, ":", ToString(line)>>
    IN  IF config.show_file_info
        THEN <<"[">> \o timestamp \o <<" ">> \o Display(level_str) \o <<" ">>
               \o file_info \o <<"] ">> \o <<record.args>>
        ELSE <<"[">> \o timestamp \o <<" ">> \o Display(level_str)
               \o <<"] ">> \o <<record.args>>

\* format_stdout with the location shown only when the record has one
format_stdout_loc_if_known(config, record, now) ==
    LET timestamp == IF config.show_date_in_stdout
                     THEN FormatDateTime(now)
                     ELSE FormatTime(now)
        stamp == IF config.use_colors
                 THEN Display(bright_black(timestamp)) ELSE timestamp
        level_str == get_level_color(config, record.level)
        file_info == IF config.use_colors
                     THEN Display(bright_black(<<record.file[1], ":",
                                                 ToString(record.line[1])>>))
                     ELSE <<record.file[1], ":", ToString(record.line[1])>>
    IN  IF config.show_file_info /\ record.file # None /\ record.line # None
        THEN <<"[">> \o stamp \o <<" ">> \o Display(level_str) \o <<" ">>
               \o file_info \o <<"] ">> \o <<record.args>>
        ELSE <<"[">> \o stamp \o <<" ">> \o Display(level_str)
               \o <<"] ">> \o <<record.args>>

format_stdout(config, record, now) ==
    LET timestamp == IF config.show_date_in_stdout
                     THEN FormatDateTime(now)
                     ELSE FormatTime(now)
        level_str == get_level_color(config, record.level)
    IN  IF config.show_file_info
        THEN LET file == unwrap_or(record.file, "unknown")
                 line == unwrap_or(record.line, 0)
             IN  IF config.use_colors
                 THEN LET file_info == bright_black(<<file, ":", ToString(line)>>)
                      IN  <<"[">> \o Display(bright_black(timestamp)) \o <<" ">>
                            \o Display(level_str) \o <<" ">>
                            \o Display(file_info) \o <<"] ">> \o <<record.args>>
                 ELSE <<"[">> \o timestamp \o <<" ">>
                        \o Display(level_str) \o <<" ">>
                        \o <<file, ":", ToString(line)>> \o <<"] ">>
                        \o <<record.args>>
        ELSE IF config.use_colors
             THEN <<"[">> \o Display(bright_black(timestamp)) \o <<" ">>
                    \o Display(level_str) \o <<"] ">> \o <<record.args>>
             ELSE <<"[">> \o timestamp \o <<" ">>
                    \o Display(level_str) \o <<"] ">> \o <<record.args>>

\* format_file that follows the configuration as format_stdout does
format_file_by_config(config, record, now) ==
    format_stdout(config, record, now) \o <<"\n">>

format_file(config, record, now) ==
    LET timestamp == FormatDateTime(now)
        file == unwrap_or(record.file, "unknown")
        line == unwrap_or(record.line, 0)
    IN  <<"[">> \o timestamp \o <<" ", LevelStr(record.level), " ">>
          \o <<file, ":", ToString(line)>> \o <<"] ">> \o <<record.args>>
          \o <<"\n">>


(***************************************************************************)
(* State.                                                                  *)
(***************************************************************************)
VARIABLES
    logger,        \* the facade's installed handler (log::set_logger)
    max_level,     \* the facade's process-wide threshold (log::max_level)
    level_set_by,  \* history: the operation that last set max_level
    file,          \* content of the log file, a sequence of tokens
    file0,         \* history: content of the file before the program started
    opens,         \* history: number of successful OpenOptions::open calls
    open_errors,   \* history: number of failed OpenOptions::open calls
    stdout,        \* content of the terminal stream
    stdout_open,   \* environment: the terminal stream accepts writes
    disk_ok,       \* environment: the log file accepts writes
    clock,         \* environment: the wall clock, in seconds
    workload,      \* environment: the calls the application may still make
    mutex,         \* holder of the installed logger's Mutex<File>, 0 if free
    pc,            \* per thread: position in the current call
    frame,         \* per thread: locals of the current call
    result,        \* per thread: what the last init helper returned
    hist,          \* per thread, history: one summary per log() call
    created,       \* number of FStdoutLogger values constructed so far
    inits,         \* number of init helper calls started
    flushes,       \* number of flush() calls started
    sets,          \* number of application calls of log::set_max_level
    formatter,     \* a stand-alone LogFormatter (its config)
    rendered       \* the last string the stand-alone formatter produced

facade_vars == <<logger, max_level, level_set_by>>
file_vars == <<file, file0, opens, open_errors>>
env_vars == <<stdout_open, disk_ok, clock, workload>>
thread_vars == <<pc, frame, result>>
count_vars == <<created, inits, flushes, sets>>
fmt_vars == <<formatter, rendered>>

vars == <<facade_vars, file_vars, env_vars, thread_vars, count_vars, fmt_vars,
          stdout, mutex, hist>>

\* the facade's NopLogger: what log::logger() is before set_logger succeeds
NoLogger == [id |-> 0, log_file |-> None, config |-> DefaultConfig]

NoRecord == [level |-> Error, file |-> None, line |-> None, args |-> ""]

NoFrame ==
    [helper |-> "", in_level |-> Off, via |-> "", level |-> Off,
     self |-> NoLogger,
     record |-> NoRecord, file_formatted |-> <<>>, written |-> 0,
     event |-> 0, emitted |-> "", stack |-> <<>>]

NoRender == [kind |-> "", record |-> NoRecord, now |-> Instant(0), out |-> <<>>]

\* the one path that can be opened, and one that cannot
GoodPath == "app.log"
BadPath == "/no/such/dir/app.log"
PathArgs == {None, Some(GoodPath), Some(BadPath)}

\* mutant: a path that cannot be opened is taken as opened
open_always_ok(path) == TRUE

\* OpenOptions::new().create(true).append(true).open(path)
open_ok(path) == path = GoodPath

\* the file as an open that truncates leaves it
opened_truncated(content) == <<>>

\* the file as OpenOptions::new().create(true).append(true).open(path)
\* leaves it: created empty if absent, its content kept otherwise
opened(content) == content

\* content a log file may hold before the program starts
OldContent == <<"old", "\n">>

\* configurations the application builds with the builder (lib.rs tests)
CustomConfigs ==
    { builder(Debug, TRUE, FALSE, FALSE),
      builder(Warn, FALSE, TRUE, TRUE) }

\* the text of the i-th message thread t logs
Msg(t, i) == "m" \o ToString(t) \o "." \o ToString(i)

Workload(i, l, f, s, levels) ==
    [inits |-> i, logs |-> l, flushes |-> f, sets |-> s, levels |-> levels,
     nesting |-> FALSE]

\* message arguments whose Display::fmt itself logs an event
Logging(m) == "{" \o m \o "}"
LoggingArgs == {Logging(Msg(t, i)) : t \in Threads, i \in 1..MaxLogs}

\* the process starts: nothing installed, the facade's threshold is Off
Init ==
    /\ logger = NoLogger
    /\ max_level = Off
    /\ level_set_by = "none"
    /\ file0 \in {<<>>, OldContent}
    /\ file = file0
    /\ opens = 0
    /\ open_errors = 0
    /\ stdout = <<>>
    /\ stdout_open = TRUE
    /\ disk_ok = TRUE
    /\ clock = 0
    /\ workload = Workload(MaxInits, FewLogs, 0, 0, Levels)
    /\ mutex = 0
    /\ pc = [t \in Threads |-> "idle"]
    /\ frame = [t \in Threads |-> NoFrame]
    /\ result = [t \in Threads |-> "none"]
    /\ hist = [t \in Threads |-> <<>>]
    /\ created = 0
    /\ inits = 0
    /\ flushes = 0
    /\ sets = 0
    /\ formatter = DefaultConfig
    /\ rendered = NoRender

(***************************************************************************)
(* The `log` facade, as far as the code uses it.                           *)
(***************************************************************************)
\* mutant: a second set_logger replaces the installed logger
set_logger_always_ok == TRUE

\* a registration that checks and installs in two steps: an attempt arriving
\* before the first one has finished finds the slot still free
set_logger_unsynchronized ==
    logger.id = 0 \/ \E u \in Threads : pc[u] = "set_max_level"

\* log::set_logger succeeds only while no logger is installed
set_logger_ok == logger.id = 0

\* a gate that lets every event through
enabled_always(level) == TRUE

\* two-layer filtering: the facade's threshold and the configuration's level
enabled_by_both(level) == level <= max_level /\ level <= logger.config.level

\* mutant: the gate compares with the configuration's level
enabled_by_config(level) == level <= logger.config.level

\* impl Log for FStdoutLogger :: enabled
enabled(level) == level <= max_level

\* mutant: the file is written without taking the lock
lock_without_exclusion(t) == mutex' = t

\* value of `mutex` when the lock is free and poisoned: a thread panicked
\* while it held the guard, and Mutex::lock returns Err from then on
Poisoned == -1

\* a lock whose caller goes on whether or not it got the guard
lock_ignoring_holder(t) == mutex' = (IF mutex = 0 THEN t ELSE mutex)

\* Mutex::lock by thread t (blocks while another thread holds the guard)
lock(t) == mutex = 0 /\ mutex' = t

\* the MutexGuard of thread t is dropped
unlock(t) == mutex' = 0

\* the call returns: to the application, or to the Display::fmt that made
\* it while the arguments of an outer record were rendered
Return(t) ==
    IF frame[t].stack = <<>>
    THEN /\ pc' = [pc EXCEPT ![t] = "idle"]
         /\ frame' = [frame EXCEPT ![t] = NoFrame]
    ELSE LET outer == Head(frame[t].stack)
         IN  /\ pc' = [pc EXCEPT ![t] = outer.pc]
             /\ frame' = [frame EXCEPT ![t] =
                              [outer.frame EXCEPT !.emitted = outer.pc]]

(***************************************************************************)
(* FStdoutLogger::with_config, called by init helper h of thread t; the    *)
(* helper goes on to FStdoutLogger::init (via = "init") or to              *)
(* init_with_level(level) (via = "init_with_level").  in_level is the      *)
(* level the helper itself was given, Off if it takes none.                *)
(***************************************************************************)
with_config(t, h, in_level, file_path, config, via, level) ==
    /\ pc[t] = "idle"
    /\ inits < workload.inits
    /\ inits' = inits + 1
    /\ IF file_path # None /\ ~open_ok(file_path[1])
       THEN \* `?` returns Err(LogError::Io) from the helper
            /\ result' = [result EXCEPT ![t] = "Io"]
            /\ open_errors' = open_errors + 1
            /\ UNCHANGED <<pc, frame, created, opens, file>>
       ELSE /\ created' = created + 1
            /\ opens' = IF file_path # None THEN opens + 1 ELSE opens
            /\ file' = IF file_path # None THEN opened(file) ELSE file
            /\ frame' = [frame EXCEPT ![t] =
                  [NoFrame EXCEPT !.helper = h, !.in_level = in_level,
                                  !.via = via, !.level = level,
                                  !.self = [id |-> created + 1,
                                            log_file |-> file_path,
                                            config |-> config]]]
            /\ UNCHANGED open_errors
            /\ pc' = [pc EXCEPT ![t] = "set_logger"]
            /\ result' = [result EXCEPT ![t] = "none"]
    /\ UNCHANGED <<facade_vars, file0, env_vars, fmt_vars, stdout, mutex,
                   hist, flushes, sets>>

\* FStdoutLogger::new(file_path)?.init()
init_logger(t) ==
    \E file_path \in PathArgs :
        with_config(t, "init_logger", Off,
                    file_path, DefaultConfig, "init", Off)

\* FStdoutLogger::new(file_path)?.init_with_level(level)
init_logger_with_level(t) ==
    \E file_path \in PathArgs, level \in LevelFilters :
        with_config(t, "init_logger_with_level", level,
                    file_path, DefaultConfig, "init_with_level", level)

\* let level = config.level;
\* FStdoutLogger::with_config(file_path, config)?.init_with_level(level)
init_logger_with_config_(t, h, file_path, config) ==
    LET level == config.level
    IN  with_config(t, h, Off, file_path, config, "init_with_level", level)

init_logger_with_config(t) ==
    \E file_path \in PathArgs, config \in CustomConfigs :
        init_logger_with_config_(t, "init_logger_with_config", file_path, config)

init_production_logger(t) ==
    \E file_path \in PathArgs :
        init_logger_with_config_(t, "init_production_logger", file_path, production)

init_development_logger(t) ==
    \E file_path \in PathArgs :
        init_logger_with_config_(t, "init_development_logger", file_path, development)

init_stdout_logger(t) ==
    \E config \in CustomConfigs :
        init_logger_with_config_(t, "init_stdout_logger", None, config)

init_simple_stdout_logger(t) ==
    \E level \in LevelFilters :
        LET config == [DefaultConfig EXCEPT !.level = level]
        IN  with_config(t, "init_simple_stdout_logger", level,
                        None, config, "init_with_level", level)

(***************************************************************************)
(* FStdoutLogger::init / init_with_level: log::set_logger, then            *)
(* log::set_max_level.                                                     *)
(***************************************************************************)
\* a registration that opens the gate fully when it installs the handler
\* and narrows it to the level afterwards
SetLogger_open_gate(t) ==
    /\ pc[t] = "set_logger"
    /\ IF set_logger_ok
       THEN /\ logger' = frame[t].self
            /\ max_level' = Trace
            /\ pc' = [pc EXCEPT ![t] = "set_max_level"]
            /\ UNCHANGED <<frame, result>>
       ELSE /\ result' = [result EXCEPT ![t] = "Logger"]
            /\ Return(t)
            /\ UNCHANGED <<logger, max_level>>
    /\ UNCHANGED <<level_set_by, file_vars, env_vars, count_vars,
                   fmt_vars, stdout, mutex, hist>>

\* init / init_with_level with log::set_max_level called before the
\* outcome of log::set_logger is looked at
SetLogger_level_first(t) ==
    /\ pc[t] = "set_logger"
    /\ IF set_logger_ok
       THEN /\ logger' = frame[t].self
            /\ pc' = [pc EXCEPT ![t] = "set_max_level"]
            /\ UNCHANGED <<frame, result, max_level>>
       ELSE /\ result' = [result EXCEPT ![t] = "Logger"]
            /\ max_level' = IF frame[t].via = "init" THEN Trace
                             ELSE frame[t].level
            /\ Return(t)
            /\ UNCHANGED logger
    /\ UNCHANGED <<level_set_by, file_vars, env_vars, count_vars,
                   fmt_vars, stdout, mutex, hist>>

SetLogger(t) ==
    /\ pc[t] = "set_logger"
    /\ IF set_logger_ok
       THEN /\ logger' = frame[t].self
            /\ pc' = [pc EXCEPT ![t] = "set_max_level"]
            /\ UNCHANGED <<frame, result>>
       ELSE \* return Err(LogError::Logger)
            /\ result' = [result EXCEPT ![t] = "Logger"]
            /\ Return(t)
            /\ UNCHANGED logger
    /\ UNCHANGED <<max_level, level_set_by, file_vars, env_vars, count_vars,
                   fmt_vars, stdout, mutex, hist>>

\* mutant: init_with_level sets the threshold init sets
set_max_level_trace(f) == Trace

\* the argument of log::set_max_level in init (lib.rs:171) and in
\* init_with_level (lib.rs:191)
set_max_level_arg(f) == IF f.via = "init" THEN Trace ELSE f.level

SetMaxLevel(t) ==
    /\ pc[t] = "set_max_level"
    /\ max_level' = set_max_level_arg(frame[t])
    /\ level_set_by' = frame[t].helper
    /\ result' = [result EXCEPT ![t] = "Ok"]
    /\ Return(t)
    /\ UNCHANGED <<logger, file_vars, env_vars, count_vars, fmt_vars, stdout,
                   mutex, hist>>

\* the application changes the threshold itself: log::set_max_level(level)
AppSetMaxLevel(t) ==
    /\ pc[t] = "idle"
    /\ sets < workload.sets
    /\ \E level \in LevelFilters :
          /\ level # max_level
          /\ max_level' = level
    /\ level_set_by' = "app"
    /\ sets' = sets + 1
    /\ UNCHANGED <<logger, file_vars, env_vars, thread_vars, fmt_vars, stdout,
                   mutex, hist, created, inits, flushes>>

(***************************************************************************)
(* impl Log for FStdoutLogger :: log, one record per call of thread t.     *)
(***************************************************************************)
\* what a log() call found when it started (the threshold, the holder of the
\* file lock, whether a file write had already failed) and what it did
Summary(record, term, fout) ==
    [rec |-> record, gate |-> max_level, held |-> mutex,
     late |-> \E u \in Threads : \E i \in DOMAIN hist[u] :
                 hist[u][i].fout = "failed",
     term |-> term, fout |-> fout]

\* the summary of the call in progress is the event-th of the thread
SetEvent(h, event, field, value) ==
    [h EXCEPT ![event] = [@ EXCEPT ![field] = value]]

\* the arguments of the record in hand log an event when they are rendered,
\* and the rendering at this position has not been made yet
NeedsEmit(t) ==
    frame[t].record.args \in LoggingArgs /\ frame[t].emitted # pc[t]

\* entry of log(): `if !self.enabled(record.metadata()) { return; }`
\* the log macros fill in file!() and line!()
LogCall(t) ==
    /\ pc[t] = "idle"
    /\ logger.id # 0
    /\ Len(hist[t]) < workload.logs
    /\ \E level \in workload.levels :
       \E args \in {Msg(t, Len(hist[t]) + 1)}
                    \cup (IF workload.nesting
                          THEN {Logging(Msg(t, Len(hist[t]) + 1))} ELSE {}) :
          LET record == [level |-> level, file |-> Some("main"), line |-> Some(10),
                         args |-> args]
          IN  IF ~enabled(record.level)
              THEN /\ hist' = [hist EXCEPT ![t] =
                                  Append(@, Summary(record, "skipped", "skipped"))]
                   /\ UNCHANGED <<pc, frame>>
              ELSE /\ hist' = [hist EXCEPT ![t] =
                                  Append(@, Summary(record, "pending", "pending"))]
                   /\ pc' = [pc EXCEPT ![t] = "print"]
                   /\ frame' = [frame EXCEPT ![t] =
                                   [NoFrame EXCEPT !.record = record,
                                                   !.event = Len(hist[t]) + 1]]
    /\ UNCHANGED <<facade_vars, file_vars, env_vars, count_vars, fmt_vars,
                   stdout, mutex, result>>

\* format_stdout, then print!, which panics when the write to stdout fails
LogStdout(t) ==
    /\ pc[t] = "print"
    /\ ~NeedsEmit(t)
    /\ LET stdout_formatted ==
               format_stdout(logger.config, frame[t].record, Instant(clock))
               \o <<"\n">>
       IN  IF stdout_open
           THEN /\ stdout' = stdout \o stdout_formatted
                /\ IF logger.log_file # None
                   THEN /\ pc' = [pc EXCEPT ![t] = "lock"]
                        /\ hist' = [hist EXCEPT ![t] = SetEvent(@, frame[t].event, "term", "written")]
                        /\ UNCHANGED frame
                   ELSE /\ hist' = [hist EXCEPT ![t] =
                               SetEvent(SetEvent(@, frame[t].event, "term", "written"),
                                        frame[t].event, "fout", "none")]
                        /\ Return(t)
           ELSE /\ pc' = [pc EXCEPT ![t] = "panicked"]
                /\ hist' = [hist EXCEPT ![t] =
                               SetEvent(SetEvent(@, frame[t].event, "term", "failed"),
                                        frame[t].event, "fout", "none")]
                /\ UNCHANGED <<stdout, frame>>
    /\ UNCHANGED <<facade_vars, file_vars, env_vars, count_vars, fmt_vars,
                   mutex, result>>

\* `if let Ok(mut file) = file.lock()`
LogLock(t) ==
    /\ pc[t] = "lock"
    /\ IF mutex = Poisoned
       THEN \* lock() returns Err(PoisonError): the block is skipped
            /\ hist' = [hist EXCEPT ![t] =
                           SetEvent(@, frame[t].event, "fout", "poisoned")]
            /\ Return(t)
            /\ UNCHANGED mutex
       ELSE /\ lock(t)
            /\ pc' = [pc EXCEPT ![t] = "format_file"]
            /\ UNCHANGED <<frame, hist>>
    /\ UNCHANGED <<facade_vars, file_vars, env_vars, count_vars, fmt_vars,
                   stdout, result>>

\* file.lock() by the thread that already owns the guard: std leaves the
\* behaviour unspecified, the call never returns: the thread deadlocks, or it
\* panics and the unwinding drops the guard it held, poisoning the mutex
LogLockOwned(t) ==
    /\ pc[t] = "lock"
    /\ mutex = t
    /\ \/ /\ pc' = [pc EXCEPT ![t] = "deadlocked"]
          /\ UNCHANGED mutex
       \/ /\ pc' = [pc EXCEPT ![t] = "panicked"]
          /\ mutex' = Poisoned
    /\ UNCHANGED <<facade_vars, file_vars, env_vars, count_vars, fmt_vars,
                   stdout, frame, result, hist>>

\* Display::fmt of the record's arguments, run by format_stdout or by
\* format_file, calls a log macro: a log() call inside the log() call
LogArgsLog(t) ==
    /\ pc[t] \in {"print", "format_file"}
    /\ NeedsEmit(t)
    /\ LET record == [level |-> Error, file |-> Some("fmt"), line |-> Some(20),
                      args |-> "in " \o frame[t].record.args]
       IN  IF ~enabled(record.level)
           THEN /\ hist' = [hist EXCEPT ![t] =
                               Append(@, Summary(record, "skipped", "skipped"))]
                /\ frame' = [frame EXCEPT ![t].emitted = pc[t]]
                /\ UNCHANGED pc
           ELSE /\ hist' = [hist EXCEPT ![t] =
                               Append(@, Summary(record, "pending", "pending"))]
                /\ pc' = [pc EXCEPT ![t] = "print"]
                /\ frame' = [frame EXCEPT ![t] =
                      [NoFrame EXCEPT
                          !.record = record,
                          !.event = Len(hist[t]) + 1,
                          !.stack = <<[pc |-> pc[t], frame |-> frame[t]]>>]]
    /\ UNCHANGED <<facade_vars, file_vars, env_vars, count_vars, fmt_vars,
                   stdout, mutex, result>>

\* `let file_formatted = self.formatter.format_file(record);`
LogFormatFile(t) ==
    /\ pc[t] = "format_file"
    /\ ~NeedsEmit(t)
    /\ frame' = [frame EXCEPT ![t].file_formatted =
                    format_file(logger.config, frame[t].record, Instant(clock)),
                              ![t].written = 0]
    /\ pc' = [pc EXCEPT ![t] = "write"]
    /\ UNCHANGED <<facade_vars, file_vars, env_vars, count_vars, fmt_vars,
                   stdout, mutex, result, hist>>

\* the lengths one write(2) of the rest of the record may accept: all of it,
\* or (a short write) everything up to the message
write_sizes(rest) == {Len(rest)} \cup {n \in {Len(rest) - 2} : n > 0}

\* the file as an append-mode write of bytes leaves it, were the writes
\* placed at the start of the file
write_at_start(content, bytes) == bytes \o content

\* write(2) on a descriptor opened with append(true): the bytes go to the
\* end of the file, whatever other writers did meanwhile
write_append(content, bytes) == content \o bytes

\* the terminal stream, were the Err of write_all printed to it
write_err_printed(out) == out \o <<"write failed", "\n">>

\* `let _ = ...`: the Err of write_all is dropped, the terminal stream stays
\* as it is
write_err_dropped(out) == out

\* `let _ = file.write_all(file_formatted.as_bytes());` one write(2) per
\* step on the append-mode descriptor; the guard is dropped when write_all
\* returns, Ok or Err
LogWrite(t) ==
    /\ pc[t] = "write"
    /\ LET rest == SubSeq(frame[t].file_formatted, frame[t].written + 1,
                          Len(frame[t].file_formatted))
       IN  IF disk_ok
           THEN \E n \in write_sizes(rest) :
                  /\ file' = write_append(file, SubSeq(rest, 1, n))
                  /\ UNCHANGED stdout
                  /\ IF n = Len(rest)
                     THEN /\ hist' = [hist EXCEPT ![t] = SetEvent(@, frame[t].event, "fout", "written")]
                          /\ unlock(t)
                          /\ Return(t)
                     ELSE /\ frame' = [frame EXCEPT ![t].written = @ + n]
                          /\ UNCHANGED <<pc, hist, mutex>>
           ELSE \* write(2) fails: write_all returns Err, which is dropped
                /\ hist' = [hist EXCEPT ![t] = SetEvent(@, frame[t].event, "fout", "failed")]
                /\ stdout' = write_err_dropped(stdout)
                /\ unlock(t)
                /\ Return(t)
                /\ UNCHANGED file
    /\ UNCHANGED <<facade_vars, file0, opens, open_errors, env_vars, count_vars,
                   fmt_vars, result>>

(***************************************************************************)
(* impl Log for FStdoutLogger :: flush                                     *)
(***************************************************************************)
\* `let _ = io::stdout().flush();` stdout is line buffered and every record
\* ends its line, so nothing is pending; an error is dropped
FlushCall(t) ==
    /\ pc[t] = "idle"
    /\ logger.id # 0
    /\ flushes < workload.flushes
    /\ flushes' = flushes + 1
    /\ IF logger.log_file # None
       THEN pc' = [pc EXCEPT ![t] = "flush_lock"]
       ELSE UNCHANGED pc
    /\ UNCHANGED <<facade_vars, file_vars, env_vars, fmt_vars, stdout, mutex,
                   frame, result, hist, created, inits, sets>>

FlushLock(t) ==
    /\ pc[t] = "flush_lock"
    /\ IF mutex = Poisoned
       THEN /\ Return(t)
            /\ UNCHANGED mutex
       ELSE /\ lock(t)
            /\ pc' = [pc EXCEPT ![t] = "flush_file"]
            /\ UNCHANGED frame
    /\ UNCHANGED <<facade_vars, file_vars, env_vars, count_vars, fmt_vars,
                   stdout, result, hist>>

\* `let _ = file.flush();` File::flush writes nothing; then the guard drops
FlushFile(t) ==
    /\ pc[t] = "flush_file"
    /\ unlock(t)
    /\ Return(t)
    /\ UNCHANGED <<facade_vars, file_vars, env_vars, count_vars, fmt_vars,
                   stdout, result, hist>>

(***************************************************************************)
(* The environment.                                                        *)
(***************************************************************************)
\* the reader of the terminal stream goes away (closed pipe, closed tty)
StdoutCloses ==
    /\ stdout_open
    /\ stdout_open' = FALSE
    /\ UNCHANGED <<facade_vars, file_vars, disk_ok, clock, workload, thread_vars,
                   count_vars, fmt_vars, stdout, mutex, hist>>

\* the disk fills up, the file system goes away
DiskFails ==
    /\ disk_ok
    /\ disk_ok' = FALSE
    /\ UNCHANGED <<facade_vars, file_vars, stdout_open, clock, workload,
                   thread_vars, count_vars, fmt_vars, stdout, mutex, hist>>

\* the wall clock advances
Tick ==
    /\ clock < MaxClock
    /\ clock' = clock + 1
    /\ UNCHANGED <<facade_vars, file_vars, stdout_open, disk_ok, workload,
                   thread_vars, count_vars, fmt_vars, stdout, mutex, hist>>

(***************************************************************************)
(* The registration lifecycle: the threads call the init helpers and log   *)
(* through whatever is installed.                                          *)
(***************************************************************************)
Next ==
    \E t \in Threads :
        \/ init_logger(t)
        \/ init_logger_with_level(t)
        \/ init_logger_with_config(t)
        \/ init_production_logger(t)
        \/ init_development_logger(t)
        \/ init_stdout_logger(t)
        \/ init_simple_stdout_logger(t)
        \/ SetLogger(t)
        \/ SetMaxLevel(t)
        \/ LogCall(t)
        \/ LogStdout(t)
        \/ LogLock(t)
        \/ LogFormatFile(t)
        \/ LogWrite(t)

Spec == Init /\ [][Next]_vars

(***************************************************************************)
(* The hot path: a dispatcher is Active, installed by                      *)
(* init_logger_with_level(file_path, level) of thread 1; the threads log,  *)
(* flush and move the threshold while the terminal and the disk may fail.  *)
(***************************************************************************)
Active(file_paths, levels, w) ==
    /\ \E file_path \in file_paths :
          /\ logger = [id |-> 1, log_file |-> file_path, config |-> DefaultConfig]
          /\ opens = IF file_path # None THEN 1 ELSE 0
    /\ open_errors = 0
    /\ max_level \in levels
    /\ level_set_by = "init_logger_with_level"
    /\ file0 \in {<<>>, OldContent}
    /\ file = file0
    /\ stdout = <<>>
    /\ stdout_open = TRUE
    /\ disk_ok = TRUE
    /\ clock = 0
    /\ workload = w
    /\ mutex = 0
    /\ pc = [t \in Threads |-> "idle"]
    /\ frame = [t \in Threads |-> NoFrame]
    /\ result = [t \in Threads |-> IF t = 1 THEN "Ok" ELSE "none"]
    /\ hist = [t \in Threads |-> <<>>]
    /\ created = 1
    /\ inits = 1
    /\ flushes = 0
    /\ sets = 0

InitActive ==
    /\ Active({None, Some(GoodPath)}, LevelFilters,
              Workload(1, FewLogs, MaxFlushes, MaxSets, Levels))
    /\ formatter = DefaultConfig
    /\ rendered = NoRender

NextActive ==
    \/ \E t \in Threads :
          \/ AppSetMaxLevel(t)
          \/ LogCall(t)
          \/ LogStdout(t)
          \/ LogLock(t)
          \/ LogFormatFile(t)
          \/ LogWrite(t)
          \/ FlushCall(t)
          \/ FlushLock(t)
          \/ FlushFile(t)
    \/ StdoutCloses
    \/ DiskFails

SpecActive == InitActive /\ [][NextActive]_vars

(***************************************************************************)
(* Concurrent load: an Active dispatcher with a file, healthy I/O, every   *)
(* thread logs MaxLogs records while the clock runs.                       *)
(***************************************************************************)
InitStress ==
    /\ Active({Some(GoodPath)}, {Info, Trace},
              Workload(1, MaxLogs, MaxFlushes, 0, {Error, Debug}))
    /\ formatter = DefaultConfig
    /\ rendered = NoRender

NextStress ==
    \/ \E t \in Threads :
          \/ LogCall(t)
          \/ LogStdout(t)
          \/ LogLock(t)
          \/ LogFormatFile(t)
          \/ LogWrite(t)
          \/ FlushCall(t)
          \/ FlushLock(t)
          \/ FlushFile(t)
    \/ Tick

SpecStress == InitStress /\ [][NextStress]_vars

(***************************************************************************)
(* The life of the file: the threads call init_logger, with a second call  *)
(* opening the file again, log and flush, while the disk may fail.         *)
(***************************************************************************)
InitFile ==
    /\ logger = NoLogger
    /\ max_level = Off
    /\ level_set_by = "none"
    /\ file0 \in {<<>>, OldContent}
    /\ file = file0
    /\ opens = 0
    /\ open_errors = 0
    /\ stdout = <<>>
    /\ stdout_open = TRUE
    /\ disk_ok = TRUE
    /\ clock = 0
    /\ workload = Workload(MaxInits, FewLogs, MaxFlushes, 0, {Error})
    /\ mutex = 0
    /\ pc = [t \in Threads |-> "idle"]
    /\ frame = [t \in Threads |-> NoFrame]
    /\ result = [t \in Threads |-> "none"]
    /\ hist = [t \in Threads |-> <<>>]
    /\ created = 0
    /\ inits = 0
    /\ flushes = 0
    /\ sets = 0
    /\ formatter = DefaultConfig
    /\ rendered = NoRender

NextFile ==
    \/ \E t \in Threads :
          \/ init_logger(t)
          \/ SetLogger(t)
          \/ SetMaxLevel(t)
          \/ LogCall(t)
          \/ LogStdout(t)
          \/ LogLock(t)
          \/ LogFormatFile(t)
          \/ LogWrite(t)
          \/ FlushCall(t)
          \/ FlushLock(t)
          \/ FlushFile(t)
    \/ DiskFails

SpecFile == InitFile /\ [][NextFile]_vars

(***************************************************************************)
(* The gate: a stdout-only dispatcher installed by                         *)
(* init_simple_stdout_logger(level), whose configuration carries that      *)
(* level; the application moves the threshold from any thread while the    *)
(* threads log.                                                            *)
(***************************************************************************)
InitGate ==
    /\ \E level \in LevelFilters :
          /\ logger = [id |-> 1, log_file |-> None,
                       config |-> [DefaultConfig EXCEPT !.level = level]]
          /\ max_level = level
    /\ level_set_by = "init_simple_stdout_logger"
    /\ file0 \in {<<>>, OldContent}
    /\ file = file0
    /\ opens = 0
    /\ open_errors = 0
    /\ stdout = <<>>
    /\ stdout_open = TRUE
    /\ disk_ok = TRUE
    /\ clock = 0
    /\ workload = Workload(1, MaxLogs, 0, MaxSets, Levels)
    /\ mutex = 0
    /\ pc = [t \in Threads |-> "idle"]
    /\ frame = [t \in Threads |-> NoFrame]
    /\ result = [t \in Threads |-> IF t = 1 THEN "Ok" ELSE "none"]
    /\ hist = [t \in Threads |-> <<>>]
    /\ created = 1
    /\ inits = 1
    /\ flushes = 0
    /\ sets = 0
    /\ formatter = DefaultConfig
    /\ rendered = NoRender

NextGate ==
    \E t \in Threads :
        \/ AppSetMaxLevel(t)
        \/ LogCall(t)
        \/ LogStdout(t)

SpecGate == InitGate /\ [][NextGate]_vars

(***************************************************************************)
(* Messages that log: an Active dispatcher with a file and healthy I/O;    *)
(* the arguments of a record may log an event of their own when they are   *)
(* rendered.  The scheduler is fair to every thread that is inside a call. *)
(***************************************************************************)
InitReentrant ==
    /\ Active({Some(GoodPath)}, {Info},
              [Workload(1, FewLogs, MaxFlushes, 0, {Error})
                  EXCEPT !.nesting = TRUE])
    /\ formatter = DefaultConfig
    /\ rendered = NoRender

\* the steps thread t takes by itself once it is inside log() or flush()
Running(t) ==
    \/ LogArgsLog(t)
    \/ LogStdout(t)
    \/ LogLock(t)
    \/ LogLockOwned(t)
    \/ LogFormatFile(t)
    \/ LogWrite(t)
    \/ FlushLock(t)
    \/ FlushFile(t)

NextReentrant ==
    \E t \in Threads :
        \/ LogCall(t)
        \/ FlushCall(t)
        \/ Running(t)

SpecReentrant ==
    /\ InitReentrant
    /\ [][NextReentrant]_vars
    /\ \A t \in Threads : WF_vars(Running(t))

(***************************************************************************)
(* The formatter alone: a LogFormatter built from any configuration        *)
(* renders records.                                                        *)
(***************************************************************************)
FmtRecords ==
    [level : Levels, file : {None, Some("main")}, line : {None, Some(10)},
     args : {"ready", "boom"}]

Instants == {Instant(c) : c \in 0..MaxClock}

\* LogFormatter::new(config)
InitFmt ==
    /\ Active({None}, {Off}, Workload(1, 0, 0, 0, {}))
    /\ formatter \in LoggerConfig
    /\ rendered = NoRender

FormatStdout ==
    /\ \E record \in FmtRecords, now \in Instants :
          rendered' = [kind |-> "stdout", record |-> record, now |-> now,
                       out |-> format_stdout(formatter, record, now)]
    /\ UNCHANGED <<facade_vars, file_vars, env_vars, thread_vars, count_vars,
                   stdout, mutex, hist, formatter>>

FormatFile ==
    /\ \E record \in FmtRecords, now \in Instants :
          rendered' = [kind |-> "file", record |-> record, now |-> now,
                       out |-> format_file(formatter, record, now)]
    /\ UNCHANGED <<facade_vars, file_vars, env_vars, thread_vars, count_vars,
                   stdout, mutex, hist, formatter>>

NextFmt == FormatStdout \/ FormatFile

SpecFmt == InitFmt /\ [][NextFmt]_vars

(***************************************************************************)
(* Reading the streams back.                                               *)
(***************************************************************************)
Count(stream, token) == Cardinality({i \in DOMAIN stream : stream[i] = token})

\* the positions where a line of the stream ends
LineEnds(stream) == {i \in DOMAIN stream : stream[i] = "\n"}

\* the line that ends at position e, its newline included
Line(stream, e) ==
    LET before == {j \in LineEnds(stream) : j < e}
        start == IF before = {} THEN 1
                 ELSE 1 + CHOOSE j \in before : \A k \in before : k <= j
    IN  SubSeq(stream, start, e)

\* what the program appended to the log file
Appended == SubSeq(file, Len(file0) + 1, Len(file))

InLog(t) == pc[t] \in {"print", "lock", "format_file", "write"}

\* the i-th log() call of thread t is over
Over(t, i) == i < Len(hist[t]) \/ ~InLog(t)

Quiescent == \A t \in Threads : pc[t] = "idle"

\* the log() calls that passed the gate
Passing == {c \in Threads \X (1..MaxLogs) :
               /\ c[2] \in DOMAIN hist[c[1]]
               /\ hist[c[1]][c[2]].term # "skipped"}

\* line is the complete file record of the event rec
IsRecordOf(line, rec) ==
    \E now \in Instants : line = format_file(logger.config, rec, now)

(***************************************************************************)
(* C1. Level filtering.  For every log() call handled by the Active        *)
(* dispatcher, with L the threshold the call found: an event less severe   *)
(* than L leaves nothing in the terminal stream and nothing in the file;   *)
(* an event at L or more severe whose terminal write is accepted has, once *)
(* the call is over, exactly one record in the terminal stream and, when a *)
(* file is configured and takes the write, exactly one record in the file. *)
(* No event ever has more than one record in either stream.                *)
(***************************************************************************)
C1_LevelFiltering ==
    \A t \in Threads : \A i \in DOMAIN hist[t] :
        LET h == hist[t][i]
            m == h.rec.args
        IN  /\ Count(stdout, m) <= 1
            /\ Count(file, m) <= 1
            /\ h.rec.level > h.gate
                  => Count(stdout, m) = 0 /\ Count(file, m) = 0
            /\ (h.rec.level <= h.gate /\ Over(t, i) /\ h.term # "failed")
                  => /\ Count(stdout, m) = 1
                     /\ (logger.log_file # None /\ h.fout # "failed")
                           => Count(file, m) = 1

\* one event was dropped at the gate and another, at the threshold itself,
\* reached both destinations
C1_Witness ==
    \E t, u \in Threads :
        /\ hist[t] # <<>> /\ hist[u] # <<>>
        /\ hist[t][1].rec.level > hist[t][1].gate
        /\ hist[t][1].gate # Off
        /\ hist[u][1].rec.level = hist[u][1].gate
        /\ Over(u, 1)
        /\ Count(stdout, hist[u][1].rec.args) = 1
        /\ Count(file, hist[u][1].rec.args) = 1

(***************************************************************************)
(* C2. No torn file writes.  Under concurrent log() calls with healthy     *)
(* I/O every complete line the program appended to the file is the whole   *)
(* record of one event that passed the gate, and once all calls are over   *)
(* the file holds exactly one line per such event and nothing else: with   *)
(* N threads of M passing events each, N*M records.                        *)
(***************************************************************************)
C2_NoTornWrites ==
    /\ \A e \in LineEnds(Appended) :
          \E c \in Passing : IsRecordOf(Line(Appended, e), hist[c[1]][c[2]].rec)
    /\ Quiescent =>
          /\ Cardinality(LineEnds(Appended)) = Cardinality(Passing)
          /\ Appended # <<>> => Appended[Len(Appended)] = "\n"
          /\ \A c \in Passing : Count(Appended, hist[c[1]][c[2]].rec.args) = 1
          /\ (\A t \in Threads : Len(hist[t]) = MaxLogs /\ \A i \in 1..MaxLogs :
                                     hist[t][i].term # "skipped")
                => Cardinality(LineEnds(Appended)) = NumThreads * MaxLogs

\* every thread logged MaxLogs passing events, all N*M records are in the
\* file, and the records of two threads alternate in it
C2_Witness ==
    /\ Quiescent
    /\ Cardinality(Passing) = NumThreads * MaxLogs
    /\ Cardinality(LineEnds(Appended)) = NumThreads * MaxLogs
    /\ \E t, u \in Threads : \E e1, e2, e3 \in LineEnds(Appended) :
          /\ t # u /\ e1 < e2 /\ e2 < e3
          /\ Appended[e1 - 1] = Msg(t, 1)
          /\ Appended[e2 - 1] = Msg(u, 1)
          /\ Appended[e3 - 1] = Msg(t, 2)

(***************************************************************************)
(* C4. Hot-path failures are absorbed: whatever I/O failure occurs, no     *)
(* log() or flush() call ends in a panic.                                  *)
(***************************************************************************)
C4_NoPanic == \A t \in Threads : pc[t] # "panicked"

(***************************************************************************)
(* C3. Register-once.  The log::set_logger step of init/init_with_level    *)
(* succeeds exactly when no handler is installed at that moment, and then  *)
(* installs the caller's dispatcher and the helper returns Ok; made while  *)
(* a dispatcher is installed it returns LogError::Logger; and the          *)
(* installed handler, once set, never changes.                             *)
(***************************************************************************)
C3_RegisterOnce ==
    [][ /\ \A t \in Threads :
              (pc[t] = "set_logger" /\ pc'[t] # "set_logger")
                 => IF logger.id = 0
                    THEN /\ logger' = frame[t].self
                         /\ pc'[t] = "set_max_level"
                         /\ result'[t] # "Logger"
                    ELSE /\ result'[t] = "Logger"
                         /\ pc'[t] = "idle"
        /\ \A t \in Threads :
              (pc[t] = "set_max_level" /\ pc'[t] # "set_max_level")
                 => result'[t] = "Ok" /\ logger'.id = frame[t].self.id
        /\ logger.id # 0 => logger' = logger
      ]_vars

\* a thread whose own registration was refused is logging through the
\* dispatcher installed first: its terminal record is out and it goes on to
\* the file
C3_Witness ==
    \E t \in Threads :
        /\ result[t] = "Logger"
        /\ logger.id = 1
        /\ pc[t] = "lock"
        /\ Count(stdout, Msg(t, 1)) = 1

(***************************************************************************)
(* C5. Construction failure is clean.  A failed open makes the helper      *)
(* return LogError::Io at once, with no dispatcher constructed, the        *)
(* installed handler and the threshold unchanged and nothing written; no   *)
(* dispatcher ever comes from a path that cannot be opened; and the file   *)
(* is opened only while a dispatcher with a file is constructed, once.     *)
(***************************************************************************)
C5_CleanConstructionFailure ==
    [][ /\ open_errors' # open_errors
              => /\ \E t \in Threads :
                       pc[t] = "idle" /\ pc'[t] = "idle" /\ result'[t] = "Io"
                 /\ UNCHANGED <<logger, max_level, created, opens, file, stdout,
                                frame>>
        /\ \A t \in Threads : frame'[t].self.log_file # Some(BadPath)
        /\ logger'.log_file # Some(BadPath)
        /\ \A t \in Threads :
              (pc[t] = "idle" /\ pc'[t] = "set_logger")
                 => /\ created' = created + 1
                    /\ frame'[t].self.id = created'
                    /\ opens' = IF frame'[t].self.log_file # None
                                THEN opens + 1 ELSE opens
        /\ opens' # opens
              => \E t \in Threads : pc[t] = "idle" /\ pc'[t] = "set_logger"
      ]_vars

\* a thread's first helper call failed on the open, its second one
\* registered a dispatcher
C5_Witness ==
    \E t \in Threads :
        /\ open_errors = 1
        /\ inits = 2
        /\ result[t] = "Ok"
        /\ \A u \in Threads \ {t} : result[u] = "none"
        /\ logger.id = 1

(***************************************************************************)
(* C6. Default initialization filters at Info: while the threshold is the  *)
(* one init_logger set, no Debug or Trace event has a record in the        *)
(* terminal stream or in the file.                                         *)
(***************************************************************************)
C6_DefaultInitFiltersAtInfo ==
    level_set_by = "init_logger"
       => \A t \in Threads : \A i \in DOMAIN hist[t] :
             hist[t][i].rec.level > DefaultConfig.level
                => /\ Count(stdout, hist[t][i].rec.args) = 0
                   /\ Count(file, hist[t][i].rec.args) = 0

(***************************************************************************)
(* C7. On success the helpers that take a Configuration leave the          *)
(* threshold at that Configuration's level (Info for the production        *)
(* preset, Debug for the development preset), and the helpers that take a  *)
(* level leave it at the level given.                                      *)
(***************************************************************************)
C7_Expected(f) ==
    CASE f.helper \in {"init_logger_with_config", "init_stdout_logger"}
            -> f.self.config.level
      [] f.helper = "init_production_logger" -> Info
      [] f.helper = "init_development_logger" -> Debug
      [] f.helper \in {"init_logger_with_level", "init_simple_stdout_logger"}
            -> f.in_level

C7_HelpersSetThreshold ==
    [][ \A t \in Threads :
           (/\ pc[t] = "set_max_level"
            /\ pc'[t] # "set_max_level"
            /\ frame[t].helper # "init_logger")
              => result'[t] = "Ok" /\ max_level' = C7_Expected(frame[t])
      ]_vars

\* init_development_logger has returned Ok and the threshold is Debug
C7_Witness ==
    \E t \in Threads :
        /\ result[t] = "Ok"
        /\ level_set_by = "init_development_logger"
        /\ max_level = Debug

(***************************************************************************)
(* C8. File-record fidelity is configuration-invariant: format_file gives  *)
(* the same record under every configuration, of the shape                 *)
(* `[<date> <time> <LEVEL> <file>:<line>] <message>\n` with the full date, *)
(* the plain level label, the location ("unknown":0 when absent), no ANSI  *)
(* styling and exactly one newline, the last token.                        *)
(***************************************************************************)
C8_FileRecordFidelity ==
    rendered.kind = "file"
       => LET r == rendered.record
              now == rendered.now
              out == rendered.out
          IN  /\ \A c \in LoggerConfig : format_file(c, r, now) = out
              /\ out = <<"[", now.date, " ", now.time, " ", LevelStr(r.level),
                         " ", IF r.file = None THEN "unknown" ELSE r.file[1],
                         ":", IF r.line = None THEN "0" ELSE ToString(r.line[1]),
                         "] ", r.args, "\n">>
              /\ \A i \in DOMAIN out : out[i] \notin AnsiCodes
              /\ Count(out, "\n") = 1
              /\ out[Len(out)] = "\n"

\* a formatter that hides the location and colours the terminal has rendered
\* the file record of an event with no source location
C8_Witness ==
    /\ rendered.kind = "file"
    /\ ~formatter.show_file_info
    /\ formatter.use_colors
    /\ formatter.show_date_in_stdout
    /\ rendered.record.file = None
    /\ rendered.record.line = None
    /\ Count(rendered.out, "unknown") = 1

(***************************************************************************)
(* C9. The terminal rendering of format_stdout contains ANSI styling if    *)
(* and only if use_colors is true, for every level (Trace included) and    *)
(* every show_file_info and show_date_in_stdout.                           *)
(***************************************************************************)
C9_AnsiIffUseColors ==
    rendered.kind = "stdout"
       => ((\E i \in DOMAIN rendered.out : rendered.out[i] \in AnsiCodes)
              <=> formatter.use_colors)

\* a Trace record rendered with colours and without location: the label is
\* bare, the styling is the timestamp's
C9_Witness ==
    /\ rendered.kind = "stdout"
    /\ rendered.record.level = Trace
    /\ formatter.use_colors
    /\ ~formatter.show_file_info
    /\ \E i \in DOMAIN rendered.out :
          /\ rendered.out[i] = "TRACE"
          /\ rendered.out[i - 1] = " "
          /\ rendered.out[i + 1] = "] "
    /\ rendered.out[2] \in AnsiCodes

(***************************************************************************)
(* C10. The terminal rendering of format_stdout has the <file>:<line>      *)
(* token if and only if show_file_info is true, for every use_colors and   *)
(* show_date_in_stdout; when shown, an absent file is "unknown" and an     *)
(* absent line is 0.                                                       *)
(***************************************************************************)
C10_FileInfoIffShown ==
    rendered.kind = "stdout"
       => LET r == rendered.record
              out == rendered.out
              at == {i \in DOMAIN out : out[i] = ":"}
          IN  /\ (at # {}) <=> formatter.show_file_info
              /\ Cardinality(at) <= 1
              /\ \A i \in at :
                    /\ i > 1 /\ i < Len(out)
                    /\ out[i - 1] = (IF r.file = None THEN "unknown"
                                     ELSE r.file[1])
                    /\ out[i + 1] = (IF r.line = None THEN "0"
                                     ELSE ToString(r.line[1]))
              /\ formatter.show_file_info
                    \/ (Count(out, "unknown") = 0 /\ Count(out, "main") = 0)

\* a record with neither file nor line rendered with the location shown
C10_Witness ==
    /\ rendered.kind = "stdout"
    /\ formatter.show_file_info
    /\ rendered.record.file = None
    /\ rendered.record.line = None
    /\ \E i \in DOMAIN rendered.out :
          /\ rendered.out[i] = "unknown"
          /\ rendered.out[i + 1] = ":"
          /\ rendered.out[i + 2] = "0"

(***************************************************************************)
(* C11. Per-thread file order.  For every thread, the file records of its  *)
(* gate-passing events appear in the order of its log() calls: when a      *)
(* later call of the thread has started, the record of each earlier        *)
(* passing event is already in the file, and it precedes the record of     *)
(* every later event of the thread, whatever the other threads log or      *)
(* flush in between.                                                       *)
(***************************************************************************)
PosOf(stream, token) == CHOOSE i \in DOMAIN stream : stream[i] = token

C11_PerThreadFileOrder ==
    \A t \in Threads : \A i \in DOMAIN hist[t] : \A j \in DOMAIN hist[t] :
        (i < j /\ hist[t][i].term # "skipped")
           => /\ Count(Appended, Msg(t, i)) = 1
              /\ Appended[PosOf(Appended, Msg(t, i)) + 1] = "\n"
              /\ Count(Appended, Msg(t, j)) = 1
                    => PosOf(Appended, Msg(t, i)) < PosOf(Appended, Msg(t, j))

\* both records of a thread are in the file with a record of another thread
\* between them, and a flush was made
C11_Witness ==
    \E t \in Threads : \E u \in Threads \ {t} : \E k \in DOMAIN hist[u] :
        /\ Len(hist[t]) = 2
        /\ flushes > 0
        /\ Count(Appended, Msg(t, 1)) = 1
        /\ Count(Appended, Msg(t, 2)) = 1
        /\ Count(Appended, Msg(u, k)) = 1
        /\ PosOf(Appended, Msg(t, 1)) < PosOf(Appended, Msg(u, k))
        /\ PosOf(Appended, Msg(u, k)) < PosOf(Appended, Msg(t, 2))

(***************************************************************************)
(* C12. Registration race.  When threads attempt registration              *)
(* concurrently, exactly one attempt succeeds and every other one returns  *)
(* LogError::Logger: never two attempts past set_logger, never two Ok      *)
(* results, the dispatcher of the attempt that got past set_logger is the  *)
(* installed one and stays it, and once every thread has made its one      *)
(* attempt exactly one of them holds Ok and the others hold Logger.        *)
(***************************************************************************)
C12_Attempted == {t \in Threads : pc[t] = "idle" /\ result[t] \in {"Ok", "Logger"}}

C12_RegistrationRace ==
    /\ Cardinality({t \in Threads : pc[t] = "set_max_level"}) <= 1
    /\ Cardinality({t \in Threads : result[t] = "Ok"}) <= 1
    /\ \A t \in Threads :
          pc[t] = "set_max_level"
             => /\ logger = frame[t].self
                /\ \A u \in Threads : result[u] # "Ok"
    /\ \A t \in Threads : result[t] \in {"Ok", "Logger"} => logger.id # 0
    /\ (/\ created >= 1
        /\ inits = created
        /\ Cardinality(C12_Attempted) = created)
          => /\ Cardinality({t \in C12_Attempted : result[t] = "Ok"}) = 1
             /\ Cardinality({t \in C12_Attempted : result[t] = "Logger"})
                   = created - 1

\* two attempts overlapped: the thread that constructed its dispatcher first
\* lost to the one that constructed second
C12_Witness ==
    \E t \in Threads : \E u \in Threads \ {t} :
        /\ created = 2
        /\ logger.id = 2
        /\ pc[t] = "idle" /\ result[t] = "Logger"
        /\ pc[u] = "idle" /\ result[u] = "Ok"

(***************************************************************************)
(* C13. A file write failure affects only the file.  When the append of    *)
(* an event's record fails, the terminal record of that event is already   *)
(* written, the call returns, the record is never written to the file      *)
(* later (no retry) and nothing but event records reaches the terminal     *)
(* (no report); an event logged after a file write has failed still gets   *)
(* its terminal record.                                                    *)
(***************************************************************************)
C13_FileFailureOnlyFile ==
    /\ \A t \in Threads : \A i \in DOMAIN hist[t] :
          LET h == hist[t][i]
              m == h.rec.args
          IN  /\ h.fout = "failed"
                    => /\ h.term = "written"
                       /\ Count(stdout, m) = 1
                       /\ Count(file, m) = 0
                       /\ Over(t, i)
              /\ (h.late /\ h.rec.level <= h.gate /\ Over(t, i)
                         /\ h.term # "failed")
                    => Count(stdout, m) = 1
    /\ Cardinality(LineEnds(stdout))
          = Cardinality({c \in Threads \X (1..MaxLogs) :
                            /\ c[2] \in DOMAIN hist[c[1]]
                            /\ hist[c[1]][c[2]].term = "written"})

\* the file write of one thread's event has failed; the event another thread
\* logged after that has its terminal record, and its file write failed too
C13_Witness ==
    \E t \in Threads : \E u \in Threads \ {t} :
        /\ hist[t] # <<>> /\ hist[t][1].fout = "failed"
        /\ hist[u] # <<>> /\ hist[u][1].late
        /\ hist[u][1].fout = "failed"
        /\ Count(stdout, Msg(u, 1)) = 1
        /\ Count(file, Msg(t, 1)) = 0
        /\ Count(file, Msg(u, 1)) = 0

(***************************************************************************)
(* C14. The file lock is never held while formatting: no thread is about   *)
(* to run format_stdout or format_file while it owns the lock on the file  *)
(* handle; a thread that owns the lock is at the append or at the flush.   *)
(***************************************************************************)
C14_NoFormattingUnderLock ==
    \A t \in Threads :
        /\ pc[t] \in {"print", "format_file"} => mutex # t
        /\ mutex = t => pc[t] \in {"write", "flush_file"}

(***************************************************************************)
(* C15. Mutual exclusion on the file handle.  At most one thread is inside *)
(* the locked section of log() or flush(), and it owns the one lock both   *)
(* use, so a flush never overlaps an append; and no step of a flush()      *)
(* call changes the content of the file or of the terminal stream.         *)
(***************************************************************************)
C15_Locked == {"format_file", "write", "flush_file"}

C15_MutualExclusion ==
    [][ /\ Cardinality({t \in Threads : pc'[t] \in C15_Locked}) <= 1
        /\ \A t \in Threads : pc'[t] \in C15_Locked => mutex' = t
        /\ \A t \in Threads :
              (pc[t] \in {"flush_lock", "flush_file"} /\ pc'[t] # pc[t])
                 => file' = file /\ stdout' = stdout
        /\ flushes' # flushes => file' = file /\ stdout' = stdout
      ]_vars

\* a flush holds the lock after a record was appended, while another thread
\* waits with its record
C15_Witness ==
    \E t \in Threads : \E u \in Threads \ {t} :
        /\ pc[t] = "flush_file"
        /\ mutex = t
        /\ pc[u] = "lock"
        /\ Appended # <<>>

(***************************************************************************)
(* C16. No unbounded blocking: under fair scheduling every log() and       *)
(* flush() call eventually returns to the application, also when rendering *)
(* the message itself emits a log event.                                   *)
(***************************************************************************)
C16_NoUnboundedBlocking ==
    \A t \in Threads : (pc[t] # "idle") ~> (pc[t] = "idle")

(***************************************************************************)
(* C17. Gate short-circuit.  A log() call for an event less severe than    *)
(* the current threshold returns within its first step: nothing is         *)
(* formatted or written, the lock on the file is neither taken nor waited  *)
(* for, whoever holds it.                                                  *)
(***************************************************************************)
C17_GateShortCircuit ==
    [][ \A t \in Threads :
           (/\ Len(hist'[t]) = Len(hist[t]) + 1
            /\ hist'[t][Len(hist'[t])].rec.level > max_level)
              => /\ pc[t] = "idle" /\ pc'[t] = "idle"
                 /\ hist'[t][Len(hist'[t])].term = "skipped"
                 /\ hist'[t][Len(hist'[t])].fout = "skipped"
                 /\ UNCHANGED <<stdout, file, mutex, frame>>
      ]_vars

\* a call filtered by the gate has returned while the other thread held the
\* lock on the file, and still holds it
C17_Witness ==
    \E t \in Threads : \E i \in DOMAIN hist[t] :
        /\ hist[t][i].term = "skipped"
        /\ hist[t][i].held \in Threads \ {t}
        /\ i = Len(hist[t])
        /\ pc[t] = "idle"
        /\ mutex = hist[t][i].held
        /\ pc[mutex] = "write"

IsPrefix(a, b) == Len(a) <= Len(b) /\ SubSeq(b, 1, Len(a)) = a

WholeRecords(stream) ==
    /\ stream # <<>> => stream[Len(stream)] = "\n"
    /\ \A e \in LineEnds(stream) :
          \E t \in Threads : \E i \in DOMAIN hist[t] :
              IsRecordOf(Line(stream, e), hist[t][i].rec)

C19_AppendOnlyWholeRecords ==
    /\ IsPrefix(file0, file)
    /\ Quiescent => WholeRecords(Appended)

(***************************************************************************)
(* C19, amended.  No step (construction with its open, failed or           *)
(* successful registration, log, flush) rewrites or removes earlier bytes: *)
(* the file after the step is the file before it followed by what the step *)
(* appended, so the content from before the construction stays at the      *)
(* start; and whenever no call is in progress and no append has failed,    *)
(* what follows it is zero or more whole records.  (An append that fails   *)
(* part-way leaves a fragment of a record.)                                *)
(***************************************************************************)
C19_AppendOnly ==
    [][ /\ IsPrefix(file, file')
        /\ file0' = file0
        /\ IsPrefix(file0, file')
        /\ (/\ Quiescent'
            /\ \A t \in Threads : \A i \in DOMAIN hist'[t] :
                  hist'[t][i].fout # "failed")
              => WholeRecords(Appended)'
      ]_vars

\* the file had content, was opened by two constructions, the second of
\* which lost the registration, a record was appended and a flush made
C19_Witness ==
    /\ file0 = OldContent
    /\ opens = 2
    /\ flushes > 0
    /\ Quiescent
    /\ \E t \in Threads : result[t] = "Logger"
    /\ Appended # <<>>
    /\ WholeRecords(Appended)
    /\ IsPrefix(OldContent, file)

(***************************************************************************)
(* C20. A failed registration leaves the filter untouched: the step at     *)
(* which init() or init_with_level(level) returns LogError::Logger changes *)
(* neither the process-wide threshold nor the installed handler, and the   *)
(* threshold is changed only by the attempt whose dispatcher is the        *)
(* installed one.                                                          *)
(***************************************************************************)
C20_FailedRegistrationKeepsFilter ==
    [][ /\ \A t \in Threads :
              (pc[t] = "set_logger" /\ pc'[t] = "idle")
                 => /\ result'[t] = "Logger"
                    /\ max_level' = max_level
                    /\ logger' = logger
        /\ max_level' # max_level
              => \E t \in Threads :
                    /\ pc[t] = "set_max_level"
                    /\ logger.id = frame[t].self.id
      ]_vars

\* one thread's registration was refused; the threshold is the winner's Warn
\* and it filtered the Info event the refused thread logged
C20_Witness ==
    \E t \in Threads : \E u \in Threads \ {t} :
        /\ result[u] = "Ok"
        /\ result[t] = "Logger"
        /\ max_level = Warn
        /\ hist[t] # <<>>
        /\ hist[t][1].rec.level = Info
        /\ hist[t][1].gate = Warn
        /\ hist[t][1].term = "skipped"

(***************************************************************************)
(* C21. Registration is two ordered steps, install the handler, then set   *)
(* the threshold.  The install step leaves the threshold as it was before  *)
(* the registration (Off in a process that has not set it), and it stays   *)
(* so until the registering thread's set_max_level; that step sets it to   *)
(* the level of the registration and the call returns Ok.  Hence no event  *)
(* less severe than that level is ever output, neither by a call made in   *)
(* the intermediate state nor afterwards.                                  *)
(***************************************************************************)
\* the level of the registration in progress, or of the one that returned
C21_Level ==
    IF \E t \in Threads : pc[t] = "set_max_level"
    THEN LET f == frame[CHOOSE t \in Threads : pc[t] = "set_max_level"]
         IN  IF f.via = "init" THEN Trace ELSE f.level
    ELSE max_level

C21_NothingBelowLevel ==
    \A t \in Threads : \A i \in DOMAIN hist[t] :
        LET h == hist[t][i]
        IN  (\/ h.term # "skipped"
             \/ Count(stdout, h.rec.args) > 0
             \/ Count(file, h.rec.args) > 0)
               => h.rec.level <= C21_Level

C21_TwoOrderedSteps ==
    [][ /\ \A t \in Threads :
              (pc[t] # "set_max_level" /\ pc'[t] = "set_max_level")
                 => /\ pc[t] = "set_logger"
                    /\ logger.id = 0
                    /\ logger' = frame[t].self
                    /\ max_level' = max_level
                    /\ max_level = Off
        /\ \A t \in Threads :
              (pc[t] = "set_max_level" /\ pc'[t] = "set_max_level")
                 => max_level' = max_level /\ logger' = logger
        /\ \A t \in Threads :
              (pc[t] = "set_max_level" /\ pc'[t] # "set_max_level")
                 => /\ max_level' = (IF frame[t].via = "init" THEN Trace
                                     ELSE frame[t].level)
                    /\ result'[t] = "Ok"
                    /\ pc'[t] = "idle"
        /\ C21_NothingBelowLevel'
      ]_vars

\* register(Info) has returned Ok; an Error event another thread logged in
\* the intermediate state met the threshold Off and was suppressed
C21_Witness ==
    \E t \in Threads : \E u \in Threads \ {t} :
        /\ result[t] = "Ok"
        /\ level_set_by = "init_logger_with_level"
        /\ max_level = Info
        /\ hist[u] # <<>>
        /\ hist[u][1].rec.level = Error
        /\ hist[u][1].gate = Off
        /\ hist[u][1].term = "skipped"
        /\ Count(stdout, Msg(u, 1)) = 0

====
